---- MODULE Spec2Model ----
(***************************************************************************)
(* A model of the local sorting engine of emu-microbench                   *)
(* (src/emu_c_utils/emu_sort_local.c): the four public entry points, the   *)
(* parallel merge sort, quick sort and bitonic sort they run, and the      *)
(* byte-level primitives (my_memcpy, swap) underneath.                     *)
(*                                                                         *)
(* Memory.  The element buffer is a function from element indices to       *)
(* elements; an element is a tuple of 8-byte words (the last one partial   *)
(* when the element size is not a multiple of 8).  A word is <<key, id>>:  *)
(* the comparator reads only the key of the first word, the id tells       *)
(* records with equal keys apart.  The function's domain is the caller's   *)
(* buffer [0, num) together with the neighbouring memory an access of the  *)
(* code can land in (one element below, Reach(size) elements above); an    *)
(* access further away faults.                                             *)
(*                                                                         *)
(* Tasks.  A Cilk frame is a record in `tasks`, keyed by its path in the   *)
(* spawn tree.  A frame's strand from one spawn/sync point to the next is  *)
(* one step; with more than one worker any runnable frame may take the     *)
(* next step, with one worker the frames run in serial (depth-first) order.*)
(***************************************************************************)
EXTENDS Integers, Sequences, FiniteSets, TLC

VARIABLES
    call,       \* the public call being made: entry, num, size, cmp, workers
    grain,      \* the grain the entry point computed (passed down unchanged)
    input,      \* the buffer's contents when the current call was made
    base,       \* the element buffer and its neighbourhood
    temp,       \* the merge-sort scratch buffer: [st, mem]
    tasks,      \* the live Cilk frames, by path
    outcome,    \* "start", "running", "returned", "abort", "segv"
    round,      \* 1: first application, 2: the entry point applied again
    snap,       \* the buffer as the first application returned it
    log         \* what the call has done so far: forks, allocations, accesses

vars == <<call, grain, input, base, temp, tasks, outcome, round, snap, log>>

----------------------------------------------------------------------------
(* Program constants *)

P_MERGE_SIZE_HIGH == 128
P_MERGE_FACTOR_HIGH == 6
P_MERGE_FACTOR_LOW == 3
P_MERGE_INSERTION_COND == 32
MIN_BITONIC_LENGTH == 32
BITONIC_FACTOR == 5
P_QUICK_FACTOR == 3
\* sizeof(long), the unit of my_memcpy and swap
LongBytes == 8

(* Bounds of the model *)

\* keys are 0..MaxKey
MaxKey == 2
\* every key sequence of every length 0..MaxCount is an input
MaxCount == 3
\* the patterns 0..MaxPattern fill the longer inputs
MaxPattern == 2

----------------------------------------------------------------------------
(* Elements, comparators and inputs *)

RECURSIVE Pow2(_)
Pow2(k) == IF k = 0 THEN 1 ELSE 2 * Pow2(k - 1)

\* x >> k on non-negative x
Shr(x, k) == x \div Pow2(k)

\* the number of 8-byte words an element of `size` bytes spans
WordsOf(size) == (size + LongBytes - 1) \div LongBytes

\* how many elements past its own element an access of swap can land
Reach(size) ==
    IF size % LongBytes = 0 THEN (LongBytes * (size - LongBytes)) \div size ELSE 0

MemDom(num, size) == (0 - 1) .. (num - 1 + Reach(size))

JunkWord == <<0 - 1, 0 - 1>>

JunkElem(size) == [w \in 1..WordsOf(size) |-> JunkWord]

\* the record with key k that the caller put at index i
Record(k, i, size) ==
    [w \in 1..WordsOf(size) |-> IF w = 1 THEN <<k, i>> ELSE <<0 - 1, i>>]

Key(e) == e[1][1]

Id(e) == e[1][2]

Sign(x) == IF x < 0 THEN 0 - 1 ELSE IF x > 0 THEN 1 ELSE 0

\* the caller's comparator: "asc" orders by key, "desc" by key, descending
Compar(c, a, b) ==
    IF c = "asc" THEN Sign(Key(a) - Key(b)) ELSE Sign(Key(b) - Key(a))

----------------------------------------------------------------------------
(* The memory a step works on.                                             *)
(* A step state s is [mem, tmp, tst, loc, acc, wr, tacc, twr, calls,       *)
(* fault]: mem is the buffer and its neighbourhood, tmp the scratch buffer *)
(* and tst its status, loc the step's element-sized local (insertion       *)
(* sort's key, quick sort's pivot), acc/wr the buffer indices the step has *)
(* accessed / written, tacc/twr the same for the scratch buffer, calls the *)
(* calls the step has made of the functions that are traced (and, as "i"   *)
(* and "j", the indices quick sort's two cursors have stopped at), and     *)
(* fault is "none" until the step aborts (a failed assert) or faults (an   *)
(* access to memory that is not there).  A primitive leaves a faulted      *)
(* state alone.                                                            *)

StepState(m, t) ==
    [mem |-> m, tmp |-> t.mem, tst |-> t.st, loc |-> <<>>,
     acc |-> {}, wr |-> {}, tacc |-> {}, twr |-> {}, calls |-> {},
     fault |-> "none"]

\* the step state after the call fn(..., l, n, ...) was made
Called(s, fn, l, n) == [s EXCEPT !.calls = @ \cup {[fn |-> fn, l |-> l, n |-> n]}]

Base(i) == [rg |-> "base", ix |-> i]

Temp(i) == [rg |-> "temp", ix |-> i]

Local == [rg |-> "loc", ix |-> 0]

\* a place that is not memory: the scratch buffer behind a null or freed
\* pointer, or a buffer index outside the modelled neighbourhood
Unmapped(s, p) ==
    CASE p.rg = "base" -> p.ix \notin DOMAIN s.mem
      [] p.rg = "temp" -> s.tst # "live" \/ p.ix \notin DOMAIN s.tmp
      [] OTHER -> FALSE

Load(s, p) ==
    CASE p.rg = "base" -> s.mem[p.ix]
      [] p.rg = "temp" -> s.tmp[p.ix]
      [] OTHER -> s.loc

\* the step state after reading place p
Read(s, p) ==
    IF s.fault # "none" THEN s
    ELSE IF Unmapped(s, p) THEN
        CASE p.rg = "base" -> [s EXCEPT !.fault = "segv", !.acc = @ \cup {p.ix}]
          [] OTHER -> [s EXCEPT !.fault = "segv", !.tacc = @ \cup {p.ix}]
    ELSE
        CASE p.rg = "base" -> [s EXCEPT !.acc = @ \cup {p.ix}]
          [] p.rg = "temp" -> [s EXCEPT !.tacc = @ \cup {p.ix}]
          [] OTHER -> s

\* the step state after storing element v at place p
Store(s, p, v) ==
    IF s.fault # "none" THEN s
    ELSE IF Unmapped(s, p) THEN
        CASE p.rg = "base" ->
               [s EXCEPT !.fault = "segv", !.acc = @ \cup {p.ix}, !.wr = @ \cup {p.ix}]
          [] OTHER ->
               [s EXCEPT !.fault = "segv", !.tacc = @ \cup {p.ix}, !.twr = @ \cup {p.ix}]
    ELSE
        CASE p.rg = "base" ->
               [s EXCEPT !.mem[p.ix] = v, !.acc = @ \cup {p.ix}, !.wr = @ \cup {p.ix}]
          [] p.rg = "temp" ->
               [s EXCEPT !.tmp[p.ix] = v, !.tacc = @ \cup {p.ix}, !.twr = @ \cup {p.ix}]
          [] OTHER -> [s EXCEPT !.loc = v]

\* the value compar sees behind a pointer (junk where the step has faulted)
Seen(s, p, size) ==
    IF Unmapped(s, p) \/ (p.rg = "loc" /\ s.loc = <<>>) THEN JunkElem(size) ELSE Load(s, p)

\* compar(a, b) on two places: the result, and the state after the two reads
ComparAt(s, c, size, a, b) == Compar(c, Seen(s, a, size), Seen(s, b, size))

ReadBoth(s, a, b) == Read(Read(s, a), b)

----------------------------------------------------------------------------
(* my_memcpy *)

\* a my_memcpy that copies no word
my_memcpy_words_none(to, from, n) == to

\* the destination after dst[i] = src[i] for i < n >> 3
my_memcpy_words(to, from, n) ==
    [w \in DOMAIN to |-> IF w <= Shr(n, 3) THEN from[w] ELSE to[w]]

\* assert((n & 0x7) == 0)
my_memcpy_assert(n) == n % LongBytes = 0

\* my_memcpy(to, from, n) on places of the step state
my_memcpy(s, to, from, n) ==
    IF s.fault # "none" THEN s
    ELSE IF ~my_memcpy_assert(n) THEN [s EXCEPT !.fault = "abort"]
    ELSE Store(Read(s, from), to,
               my_memcpy_words(Seen(s, to, n), Seen(s, from, n), n))

----------------------------------------------------------------------------
(* insertion_sort *)

\* the shifting loop: while (j >= 0 && compar(base + j, key) > 0)
RECURSIVE insertion_shift(_, _, _, _, _)
insertion_shift(s, c, size, b, j) ==
    IF s.fault # "none" \/ j < 0 THEN [s |-> s, j |-> j]
    ELSE IF ComparAt(s, c, size, Base(b + j), Local) > 0
    THEN insertion_shift(my_memcpy(ReadBoth(s, Base(b + j), Local),
                                   Base(b + j + 1), Base(b + j), size),
                         c, size, b, j - 1)
    ELSE [s |-> ReadBoth(s, Base(b + j), Local), j |-> j]

\* my_memcpy(base + (j + 1) * size, key, size) after the shifting loop sh
insertion_place(sh, size, b) == my_memcpy(sh.s, Base(b + sh.j + 1), Local, size)

\* the outer loop: for (i = 1; i < nelem; i++)
RECURSIVE insertion_loop(_, _, _, _, _, _)
insertion_loop(s, c, size, b, nelem, i) ==
    IF s.fault # "none" \/ i >= nelem THEN s
    ELSE insertion_loop(
             insertion_place(
                 insertion_shift(my_memcpy(s, Local, Base(b + i), size),
                                 c, size, b, i - 1),
                 size, b),
             c, size, b, nelem, i + 1)

\* insertion_sort(base + b * size, nelem, size, compar); keyok: malloc(size)
\* returned memory.  A null key is first written by my_memcpy.
insertion_sort(s, c, size, b, nelem, keyok) ==
    IF nelem > 1 /\ ~keyok /\ s.fault = "none"
    THEN [s EXCEPT !.fault = IF my_memcpy_assert(size) THEN "segv" ELSE "abort"]
    ELSE insertion_loop(s, c, size, b, nelem, 1)

----------------------------------------------------------------------------
(* p_merge *)

\* a p_merge that merges from temp without filling it
p_merge_copy_skipped(s, size, i, last) == s

\* the two loops that copy base[l..m] and base[m+1..r] into temp
RECURSIVE p_merge_copy(_, _, _, _)
p_merge_copy(s, size, i, last) ==
    IF s.fault # "none" \/ i > last THEN s
    ELSE p_merge_copy(my_memcpy(s, Temp(i), Base(i), size), size, i + 1, last)

\* a p_merge that also takes the right half's element when the two are equal
p_merge_takes_right_or_tie(c, x, y) == Compar(c, x, y) >= 0

\* compar(temp + i, temp + j) > 0: the right half's element goes first
p_merge_takes_right(c, x, y) == Compar(c, x, y) > 0

\* the merge loop and the two loops that copy what is left of either half
RECURSIVE p_merge_loop(_, _, _, _, _, _, _, _)
p_merge_loop(s, c, size, i, j, k, iend, jend) ==
    IF s.fault # "none" THEN s
    ELSE IF i < iend /\ j < jend THEN
        IF p_merge_takes_right(c, Seen(s, Temp(i), size), Seen(s, Temp(j), size))
        THEN p_merge_loop(my_memcpy(ReadBoth(s, Temp(i), Temp(j)),
                                    Base(k), Temp(j), size),
                          c, size, i, j + 1, k + 1, iend, jend)
        ELSE p_merge_loop(my_memcpy(ReadBoth(s, Temp(i), Temp(j)),
                                    Base(k), Temp(i), size),
                          c, size, i + 1, j, k + 1, iend, jend)
    ELSE IF i < iend THEN
        p_merge_loop(my_memcpy(s, Base(k), Temp(i), size),
                     c, size, i + 1, j, k + 1, iend, jend)
    ELSE IF j < jend THEN
        p_merge_loop(my_memcpy(s, Base(k), Temp(j), size),
                     c, size, i, j + 1, k + 1, iend, jend)
    ELSE s

\* a p_merge whose loops stop one element short of the right half's end
p_merge_short_of_r(s, c, size, l, r, m) ==
    p_merge_loop(p_merge_copy(p_merge_copy(s, size, l, m), size, m + 1, r),
                 c, size, l, m + 1, l, m + 1, r)

\* p_merge(temp, base, l, r, m): n1 = m - l + 1 and n2 = r - m elements
p_merge(s, c, size, l, r, m) ==
    p_merge_loop(p_merge_copy(p_merge_copy(s, size, l, m), size, m + 1, r),
                 c, size, l, m + 1, l, m + 1, r + 1)

----------------------------------------------------------------------------
(* p_merge_sort *)

\* the split point
p_merge_sort_mid(l, r) == (l + r) \div 2

\* a p_merge_sort that also spawns for a range of grain elements
p_merge_sort_forks_at_grain(l, r, nelem, g) == r > l /\ nelem >= g

\* nelem > grain: the two halves are spawned
p_merge_sort_forks(l, r, nelem, g) == r > l /\ nelem > g

\* the branch that does not spawn: insertion sort up to
\* P_MERGE_INSERTION_COND elements, plain recursion above
RECURSIVE p_merge_sort_seq(_, _, _, _, _, _, _, _)
p_merge_sort_seq(s, c, size, nelem, l, r, g, keyok) ==
    IF s.fault # "none" \/ ~(r > l) THEN s
    ELSE IF nelem > g
    THEN Called(s, "cilk_spawn", l, nelem)   \* the spawning branch: not run here
    ELSE IF nelem > 1 THEN
        IF nelem <= P_MERGE_INSERTION_COND
        THEN insertion_sort(Called(s, "insertion_sort", l, nelem), c, size, l, nelem, keyok)
        ELSE p_merge(
                 p_merge_sort_seq(
                     Called(p_merge_sort_seq(
                                Called(s, "p_merge_sort", l, p_merge_sort_mid(l, r) - l + 1),
                                c, size, p_merge_sort_mid(l, r) - l + 1,
                                l, p_merge_sort_mid(l, r), g, keyok),
                            "p_merge_sort", p_merge_sort_mid(l, r) + 1,
                            r - p_merge_sort_mid(l, r)),
                     c, size, r - p_merge_sort_mid(l, r),
                     p_merge_sort_mid(l, r) + 1, r, g, keyok),
                 c, size, l, r, p_merge_sort_mid(l, r))
    ELSE s

----------------------------------------------------------------------------
(* swap *)

\* the element and word that p[i] names, for long *p at element a
swap_word(a, i, size) ==
    [e |-> a + (LongBytes * i) \div size,
     w |-> ((LongBytes * i) % size) \div LongBytes + 1]

\* if (!(size % sizeof(long)))
swap_runs(size) == size % LongBytes = 0

\* for (i = 0; i < size; i += sizeof(long)): the next i
swap_next(i) == i + LongBytes

\* t = p[i]; p[i] = q[i]; q[i] = t
swap_read(s, p) == IF p.e \in DOMAIN s.mem THEN s.mem[p.e][p.w] ELSE JunkWord

swap_write(s, p, v) ==
    IF s.fault # "none" THEN s
    ELSE Store(s, Base(p.e), [s.mem[p.e] EXCEPT ![p.w] = v])

swap_words(s, pa, pb) ==
    swap_write(swap_write(ReadBoth(s, Base(pa.e), Base(pb.e)), pa, swap_read(s, pb)),
               pb, swap_read(s, pa))

RECURSIVE swap_loop(_, _, _, _, _)
swap_loop(s, a, b, size, i) ==
    IF s.fault # "none" \/ i >= size THEN s
    ELSE swap_loop(swap_words(s, swap_word(a, i, size), swap_word(b, i, size)),
                   a, b, size, swap_next(i))

\* swap(base + a * size, base + b * size, size)
swap(s, a, b, size) == IF swap_runs(size) THEN swap_loop(s, a, b, size, 0) ELSE s

----------------------------------------------------------------------------
(* qsort of the C library, called on base[low .. low + num - 1].  The      *)
(* order it leaves equal elements in is unspecified: tie is "stable" (kept *)
(* as they were) or "reverse".                                             *)

qsort_before(c, tie, x, i, y, j) ==
    \/ Compar(c, x, y) < 0
    \/ Compar(c, x, y) = 0 /\ (IF tie = "stable" THEN i < j ELSE i > j)

qsort(s, c, low, num, tie) ==
    IF s.fault # "none" \/ num < 2 THEN s
    ELSE LET rng == low .. (low + num - 1)
             rank(i) == Cardinality({j \in rng :
                            qsort_before(c, tie, s.mem[j], j, s.mem[i], i)})
             src(p) == CHOOSE i \in rng : low + rank(i) = p
         IN  [s EXCEPT !.mem = [p \in DOMAIN s.mem |->
                                   IF p \in rng THEN s.mem[src(p)] ELSE s.mem[p]],
                       !.acc = @ \cup rng, !.wr = @ \cup rng]

----------------------------------------------------------------------------
(* p_quick_sort *)

\* mid = lo + size * ((hi - lo) / size >> 1), as an element index.  hi - lo
\* is converted to size_t for the division: with right < left the quotient
\* is about 2^63 / size, an address far outside anything mapped.
FarIndex == 0 - Pow2(20)

p_quick_sort_mid(left, right, size) ==
    IF right >= left
    THEN left + Shr(((right - left) * size) \div size, 1)
    ELSE FarIndex

\* (right - left) > grain, compared as size_t
p_quick_sort_forks(left, right, g) ==
    IF right - left < 0 THEN TRUE ELSE right - left > g

\* if (compar(x, y) < 0) swap(x, y)
p_quick_sort_order(s, c, size, x, y) ==
    IF s.fault = "none" /\ ComparAt(s, c, size, Base(x), Base(y)) < 0
    THEN swap(ReadBoth(s, Base(x), Base(y)), x, y, size)
    ELSE ReadBoth(s, Base(x), Base(y))

\* the second test of the median of three, and the third inside it
p_quick_sort_order3(s, c, size, lo, mid, hi) ==
    IF s.fault = "none" /\ ComparAt(s, c, size, Base(hi), Base(mid)) < 0
    THEN p_quick_sort_order(swap(ReadBoth(s, Base(hi), Base(mid)), mid, hi, size),
                            c, size, mid, lo)
    ELSE ReadBoth(s, Base(hi), Base(mid))

\* the median of three, and the copy of it into pivot
p_quick_sort_median(s, c, size, lo, mid, hi) ==
    my_memcpy(p_quick_sort_order3(p_quick_sort_order(s, c, size, mid, lo),
                                  c, size, lo, mid, hi),
              Local, Base(mid), size)

p_quick_sort_pivot(s, c, size, left, right) ==
    p_quick_sort_median(s, c, size, left, p_quick_sort_mid(left, right, size), right)

\* while (compar(base + i, pivot) < 0) i++
RECURSIVE p_quick_sort_up(_, _, _, _)
p_quick_sort_up(s, c, size, i) ==
    IF s.fault = "none" /\ ~Unmapped(s, Base(i))
       /\ ComparAt(s, c, size, Base(i), Local) < 0
    THEN p_quick_sort_up(ReadBoth(s, Base(i), Local), c, size, i + 1)
    ELSE [s |-> ReadBoth(s, Base(i), Local), i |-> i]

\* while (compar(base + j, pivot) > 0) j--
RECURSIVE p_quick_sort_down(_, _, _, _)
p_quick_sort_down(s, c, size, j) ==
    IF s.fault = "none" /\ ~Unmapped(s, Base(j))
       /\ ComparAt(s, c, size, Base(j), Local) > 0
    THEN p_quick_sort_down(ReadBoth(s, Base(j), Local), c, size, j - 1)
    ELSE [s |-> ReadBoth(s, Base(j), Local), j |-> j]

\* if (i < j) swap: the elements the two cursors stopped at are exchanged
p_quick_sort_swaps(i, j) == i < j

\* while (i <= j) { ... }: the state and the cursors when the loop exits
RECURSIVE p_quick_sort_partition(_, _, _, _, _)
RECURSIVE p_quick_sort_scanned(_, _, _, _)
RECURSIVE p_quick_sort_stopped(_, _, _, _)
RECURSIVE p_quick_sort_exchange(_, _, _, _)
p_quick_sort_partition(s, c, size, i, j) ==
    IF s.fault # "none" \/ ~(i <= j) THEN [s |-> s, i |-> i, j |-> j]
    ELSE p_quick_sort_scanned(p_quick_sort_up(s, c, size, i), c, size, j)

\* the first inner loop has left up.i; the second runs
p_quick_sort_scanned(up, c, size, j) ==
    p_quick_sort_stopped(p_quick_sort_down(Called(up.s, "i", up.i, 0), c, size, j),
                         c, size, up.i)

\* the second inner loop has left down.j
p_quick_sort_stopped(down, c, size, i) ==
    p_quick_sort_exchange([down EXCEPT !.s = Called(@, "j", down.j, 0)], c, size, i)

\* if (i <= j) { if (i < j) swap(...); i++; j--; }
p_quick_sort_exchange(down, c, size, i) ==
    IF i <= down.j
    THEN p_quick_sort_partition(
             IF p_quick_sort_swaps(i, down.j)
             THEN swap(down.s, i, down.j, size) ELSE down.s,
             c, size, i + 1, down.j - 1)
    ELSE p_quick_sort_partition(down.s, c, size, i, down.j)

\* everything p_quick_sort does before it recurses
p_quick_sort_split(s, c, size, left, right) ==
    p_quick_sort_partition(p_quick_sort_pivot(s, c, size, left, right),
                           c, size, left, right)

\* the sub-ranges p_quick_sort recurses into: [left, j] and [i, right]
p_quick_sort_ranges(left, right, i, j) ==
    (IF left < j THEN <<[l |-> left, r |-> j]>> ELSE <<>>)
        \o (IF i < right THEN <<[l |-> i, r |-> right]>> ELSE <<>>)

\* p_quick_sort on a range it does not fork for, run to the end
RECURSIVE p_quick_sort_seq(_, _, _, _, _)
RECURSIVE p_quick_sort_lower(_, _, _, _, _)
RECURSIVE p_quick_sort_upper(_, _, _, _, _)
p_quick_sort_seq(s, c, size, left, right) ==
    p_quick_sort_lower(p_quick_sort_split(s, c, size, left, right), c, size, left, right)

\* if (left < j) p_quick_sort(..., left, j, grain)
p_quick_sort_lower(sp, c, size, left, right) ==
    p_quick_sort_upper(
        IF left < sp.j /\ sp.s.fault = "none"
        THEN p_quick_sort_seq(sp.s, c, size, left, sp.j) ELSE sp.s,
        c, size, sp.i, right)

\* if (i < right) p_quick_sort(..., i, right, grain)
p_quick_sort_upper(s, c, size, i, right) ==
    IF i < right /\ s.fault = "none"
    THEN p_quick_sort_seq(s, c, size, i, right) ELSE s

----------------------------------------------------------------------------
(* p_bitonic_sort and p_bitonic_merge *)

\* the leaf of both: qsort, then reversed in place when descending
RECURSIVE bitonic_reverse(_, _, _, _, _)
bitonic_reverse(s, size, low, i, j) ==
    IF s.fault # "none" \/ ~(i < j) THEN s
    ELSE bitonic_reverse(swap(s, i + low, j + low, size), size, low, i + 1, j - 1)

bitonic_leaf(s, c, size, low, num, asec, tie) ==
    IF ~asec
    THEN bitonic_reverse(qsort(s, c, low, num, tie), size, low, 0, num - 1)
    ELSE qsort(s, c, low, num, tie)

\* size_t res: the model's size_t has SizeBits bits, and res <<= 1 drops
\* the bit shifted out of it
SizeBits == 8

RECURSIVE hp2_loop(_, _)
hp2_loop(res, n) ==
    IF res > 0 /\ res < n THEN hp2_loop((res * 2) % Pow2(SizeBits), n) ELSE res

highestPowerofTwoLessThan(n) == Shr(hp2_loop(1, n), 1)

\* the directions p_bitonic_sort sorts its two halves in
p_bitonic_sort_dirs(asec) == <<asec, ~asec>>

\* merge_worker's test: swap when the pair is out of order for asec
merge_worker_swaps(c, asec, x, y) ==
    IF asec THEN Compar(c, x, y) > 0 ELSE Compar(c, x, y) < 0

\* merge_worker(begin, end, compar, base, asec, m, size)
RECURSIVE merge_worker(_, _, _, _, _, _, _)
merge_worker(s, c, size, asec, m, i, end) ==
    IF s.fault # "none" \/ ~(i < end) THEN s
    ELSE merge_worker(
             IF merge_worker_swaps(c, asec, Seen(s, Base(i), size),
                                   Seen(s, Base(i + m), size))
             THEN swap(ReadBoth(s, Base(i), Base(i + m)), i, i + m, size)
             ELSE ReadBoth(s, Base(i), Base(i + m)),
             c, size, asec, m, i + 1, end)

\* emu_local_for(begin, end, grain, worker, ...): the ranges it spawns the
\* worker on, one per grain-sized chunk, and joins
emu_local_for_chunks(begin, end, g) ==
    [k \in 1 .. ((end - begin + g - 1) \div g) |->
        [l |-> begin + (k - 1) * g,
         r |-> IF begin + k * g <= end THEN begin + k * g ELSE end]]

----------------------------------------------------------------------------
(* The calls the model makes *)

Entries == {"sort", "bitonic", "merge", "quick"}

\* element sizes and comparators: 8-byte elements under both comparators,
\* 16-byte and 12-byte elements under the ascending one
Configs ==
    {[size |-> LongBytes, cmp |-> "asc"],
     [size |-> LongBytes, cmp |-> "desc"],
     [size |-> 2 * LongBytes, cmp |-> "asc"],
     [size |-> LongBytes + LongBytes \div 2, cmp |-> "asc"]}

\* the key at index i of the n-element input of pattern p: 0 ascending,
\* 1 descending, p >= 2 scrambled runs of p equal keys
PatternKey(p, i, n) ==
    CASE p = 0 -> i
      [] p = 1 -> n - 1 - i
      [] OTHER -> ((i * (2 * p + 3) + p) % n) \div p

\* the calls on pattern inputs: the counts around the thresholds of the
\* entry points, and shorter ones whose frames run in any order.
\* workers = 1 runs the frames in serial order, 2 in any order.
LongCalls ==
    {[entry |-> "sort", num |-> MIN_BITONIC_LENGTH - 1, workers |-> 2],
     [entry |-> "sort", num |-> MIN_BITONIC_LENGTH, workers |-> 1],
     [entry |-> "sort", num |-> MIN_BITONIC_LENGTH + 1, workers |-> 1],
     [entry |-> "sort", num |-> P_MERGE_SIZE_HIGH, workers |-> 1],
     [entry |-> "sort", num |-> P_MERGE_SIZE_HIGH + 1, workers |-> 1],
     [entry |-> "merge", num |-> 3, workers |-> 2],
     [entry |-> "merge", num |-> 5, workers |-> 2],
     [entry |-> "merge", num |-> Pow2(P_MERGE_FACTOR_LOW) - 1, workers |-> 1],
     [entry |-> "merge", num |-> 2 * Pow2(P_MERGE_FACTOR_LOW), workers |-> 1],
     [entry |-> "quick", num |-> Pow2(P_QUICK_FACTOR), workers |-> 2],
     [entry |-> "bitonic", num |-> MIN_BITONIC_LENGTH, workers |-> 1],
     [entry |-> "bitonic", num |-> MIN_BITONIC_LENGTH + 1, workers |-> 1],
     [entry |-> "p_bitonic_sort", num |-> 4, workers |-> 2]}

\* the recursive calls started on their own: p_merge_sort on a range it
\* sorts without spawning (grain 33, as the entry points compute it for
\* 2112 elements), and p_bitonic_sort with grain 1 on the short ranges it
\* is reached with from 32..63 elements
SubGrain == P_MERGE_INSERTION_COND + 1

Calls ==
    UNION {
        {[entry |-> e, num |-> n, size |-> cf.size, cmp |-> cf.cmp, workers |-> 1,
          keys |-> ks] :
            e \in Entries \cup {"p_bitonic_sort"}, cf \in Configs,
            ks \in [0 .. (n - 1) -> 0 .. MaxKey]} : n \in 0 .. MaxCount}
    \cup
    {[entry |-> lc.entry, num |-> lc.num, size |-> cf.size, cmp |-> cf.cmp,
      workers |-> lc.workers, keys |-> [i \in 0 .. (lc.num - 1) |-> PatternKey(p, i, lc.num)]] :
        lc \in LongCalls, cf \in Configs, p \in 0 .. MaxPattern}
    \cup
    {[entry |-> "p_merge_sort", num |-> SubGrain, size |-> cf.size, cmp |-> cf.cmp,
      workers |-> 1, keys |-> [i \in 0 .. (SubGrain - 1) |-> PatternKey(p, i, SubGrain)]] :
        cf \in Configs, p \in 0 .. MaxPattern}

InRange == 0 .. (call.num - 1)

NoTemp == [st |-> "none", mem |-> <<>>]

NoLog ==
    [forked |-> FALSE, allocs |-> 0, oob |-> {}, nulluse |-> FALSE,
     freeuse |-> FALSE, late |-> FALSE, race |-> FALSE, calls |-> {}]

NoTasks == [u \in {} |-> 0]

Init ==
    /\ call \in {c \in Calls : c.entry = "p_bitonic_sort" => c.size = LongBytes /\ c.num > 0}
    /\ grain = 0
    /\ input = [i \in InRange |-> Record(call.keys[i], i, call.size)]
    /\ base = [i \in MemDom(call.num, call.size) |->
                 IF i \in InRange THEN Record(call.keys[i], i, call.size)
                 ELSE JunkElem(call.size)]
    /\ temp = NoTemp
    /\ tasks = NoTasks
    /\ outcome = "start"
    /\ round = 1
    /\ snap = <<>>
    /\ log = NoLog

\* the same for the calls of a function on its own
InitOn(calls) ==
    /\ call \in calls
    /\ grain = 0
    /\ input = [i \in InRange |-> Record(call.keys[i], i, call.size)]
    /\ base = [i \in MemDom(call.num, call.size) |->
                 IF i \in InRange THEN Record(call.keys[i], i, call.size)
                 ELSE JunkElem(call.size)]
    /\ temp = NoTemp
    /\ tasks = NoTasks
    /\ outcome = "start"
    /\ round = 1
    /\ snap = <<>>
    /\ log = NoLog

----------------------------------------------------------------------------
(* Frames *)

\* a frame: the function, its range [l, r] of n elements (merge_worker: the
\* chunk [l, r)), its direction, its m, where it stands, and the buffer and
\* scratch indices it and the frames that have returned to it have accessed
\* and written
Task(fn, l, r, n, asec) ==
    [fn |-> fn, l |-> l, r |-> r, n |-> n, asec |-> asec, m |-> 0, pc |-> "ready",
     acc |-> {}, wr |-> {}, tacc |-> {}, twr |-> {}]

Children(t) ==
    {u \in DOMAIN tasks : Len(u) = Len(t) + 1 /\ SubSeq(u, 1, Len(t)) = t}

\* a cilk_sync that waits for nothing
Joined_without_waiting(t) == TRUE

\* every frame t spawned or called has returned
Joined(t) == \A u \in Children(t) : tasks[u].pc = "done"

Runnable(t) ==
    /\ outcome \in {"running", "returned"}
    /\ \/ tasks[t].pc = "ready"
       \/ tasks[t].pc \in {"sync", "for", "call"} /\ Joined(t)

\* u precedes t in the serial (depth-first) order of the frames
SerialBefore(u, t) ==
    \E k \in 1 .. Len(u) :
        /\ k <= Len(t)
        /\ SubSeq(u, 1, k - 1) = SubSeq(t, 1, k - 1)
        /\ u[k] < t[k]

\* the scheduler: one worker runs the frames in serial order
MayRun(t) ==
    /\ Runnable(t)
    /\ call.workers = 1 => \A u \in DOMAIN tasks : Runnable(u) => ~SerialBefore(u, t)

\* the frames with t's children removed and t's record replaced
Rejoin(t, rec) ==
    [u \in DOMAIN tasks \ Children(t) |-> IF u = t THEN rec ELSE tasks[u]]

\* the frames with t's record replaced and the frames kids added below it
Spawn(t, rec, kids) ==
    [u \in DOMAIN tasks \cup {Append(t, k) : k \in DOMAIN kids} |->
        IF u = t THEN rec
        ELSE IF u \in DOMAIN tasks THEN tasks[u]
        ELSE kids[u[Len(u)]]]

\* frame u is frame t or one of its ancestors
Above(u, t) == Len(u) <= Len(t) /\ SubSeq(t, 1, Len(u)) = u

\* frames neither of which waits for the other
Parallel(u, t) == ~Above(u, t) /\ ~Above(t, u)

\* the step s of frame t touches what a parallel frame has touched, and one
\* of the two accesses is a write
Races(t, s) ==
    \E u \in DOMAIN tasks :
        /\ Parallel(u, t)
        /\ \/ s.wr \cap tasks[u].acc # {}
           \/ s.acc \cap tasks[u].wr # {}
           \/ s.twr \cap tasks[u].tacc # {}
           \/ s.tacc \cap tasks[u].twr # {}

\* frame t's record after step s: the step's accesses, and those of the
\* frames that have returned to t, are now t's
Touched(t, rec, s) ==
    [rec EXCEPT !.acc  = @ \cup s.acc \cup UNION {tasks[u].acc : u \in Children(t)},
                !.wr   = @ \cup s.wr \cup UNION {tasks[u].wr : u \in Children(t)},
                !.tacc = @ \cup s.tacc \cup UNION {tasks[u].tacc : u \in Children(t)},
                !.twr  = @ \cup s.twr \cup UNION {tasks[u].twr : u \in Children(t)}]

\* what a step's accesses add to the log
Logged(t, s) ==
    [log EXCEPT !.oob = @ \cup (s.acc \ InRange),
                !.nulluse = @ \/ (temp.st = "null" /\ s.tacc # {}),
                !.freeuse = @ \/ (temp.st = "freed" /\ s.tacc # {}),
                !.late = @ \/ (outcome = "returned" /\ s.acc \cup s.tacc # {}),
                !.race = @ \/ Races(t, s),
                !.calls = @ \cup s.calls]

\* A step of frame t ends: s is the memory it leaves and nt the frames.  A
\* failed assert or a fault ends the process.  A step that accessed memory
\* outside the caller's buffer has undefined behaviour: the access may
\* fault, or go through to the neighbouring memory.
Finish(t, s, nt, forks) ==
    \E crash \in BOOLEAN :
        /\ crash => s.acc \ InRange # {}
        /\ IF s.fault # "none" \/ crash
           THEN /\ outcome' = (IF s.fault # "none" THEN s.fault ELSE "segv")
                /\ log' = Logged(t, s)
                /\ UNCHANGED <<base, temp, tasks>>
           ELSE /\ base' = s.mem
                /\ temp' = [temp EXCEPT !.mem = s.tmp]
                /\ tasks' = [nt EXCEPT ![t] = Touched(t, @, s)]
                /\ log' = [Logged(t, s) EXCEPT !.forked = @ \/ forks]
                /\ UNCHANGED outcome
        /\ UNCHANGED <<call, grain, input, round, snap>>

Now == StepState(base, temp)

\* the frame returns
Done(t) == Rejoin(t, [tasks[t] EXCEPT !.pc = "done"])

\* frame t is in function fn at pc and may run
At(t, fn, pc) == tasks[t].fn = fn /\ tasks[t].pc = pc /\ MayRun(t)

----------------------------------------------------------------------------
(* The entry points *)

\* a grain policy with one tier only
merge_grain_one_tier(num) == Shr(num, P_MERGE_FACTOR_LOW)

\* the grain of the merge sort
merge_grain(num) ==
    IF num > P_MERGE_SIZE_HIGH
    THEN Shr(num, P_MERGE_FACTOR_HIGH)
    ELSE Shr(num, P_MERGE_FACTOR_LOW)

\* BITONIC_GRAIN(n)
bitonic_grain(num) == Shr(num, BITONIC_FACTOR)

\* P_QUICK_SORT_GRAIN(n)
quick_grain(num) == Shr(num, P_QUICK_FACTOR)

\* char *temp = malloc(size * num): memory of unknown contents, or null
malloc(ok, num, size) ==
    IF ok THEN [st |-> "live", mem |-> [i \in 0 .. (num - 1) |-> JunkElem(size)]]
    ELSE [st |-> "null", mem |-> <<>>]

\* the entry point calls the sort function f on the whole buffer
Start(f, l, r, n, g) ==
    /\ tasks' = (<<>> :> Task(f, l, r, n, TRUE))
    /\ grain' = g
    /\ outcome' = "running"
    /\ UNCHANGED <<call, input, base, round, snap>>

\* the entry point sorts the whole buffer with qsort and returns
Library ==
    \E tie \in {"stable", "reverse"} :
        /\ base' = qsort(Now, call.cmp, 0, call.num, tie).mem
        /\ outcome' = "returned"
        /\ UNCHANGED <<call, grain, input, temp, tasks, round, snap, log>>

emu_sort_local ==
    /\ outcome = "start"
    /\ call.entry = "sort"
    /\ IF call.num >= MIN_BITONIC_LENGTH
       THEN \E ok \in BOOLEAN :
                /\ temp' = malloc(ok, call.num, call.size)
                /\ log' = [log EXCEPT !.allocs = @ + 1]
                /\ Start("p_merge_sort", 0, call.num - 1, call.num, merge_grain(call.num))
       ELSE Library

emu_sort_local_bitonic ==
    /\ outcome = "start"
    /\ call.entry = "bitonic"
    /\ IF call.num >= MIN_BITONIC_LENGTH
       THEN /\ Start("p_bitonic_sort", 0, call.num - 1, call.num, bitonic_grain(call.num))
            /\ UNCHANGED <<temp, log>>
       ELSE Library

emu_sort_local_merge ==
    /\ outcome = "start"
    /\ call.entry = "merge"
    /\ IF call.num > 1
       THEN \E ok \in BOOLEAN :
                /\ temp' = malloc(ok, call.num, call.size)
                /\ log' = [log EXCEPT !.allocs = @ + 1]
                /\ Start("p_merge_sort", 0, call.num - 1, call.num, merge_grain(call.num))
       ELSE /\ outcome' = "returned"
            /\ UNCHANGED <<call, grain, input, base, temp, tasks, round, snap, log>>

emu_sort_local_quick ==
    /\ outcome = "start"
    /\ call.entry = "quick"
    /\ Start("p_quick_sort", 0, call.num - 1, call.num, quick_grain(call.num))
    /\ UNCHANGED <<temp, log>>

\* p_merge_sort as the entry points call it for SubGrain * 64 elements, on
\* its leftmost range of SubGrain elements
call_p_merge_sort ==
    /\ outcome = "start"
    /\ call.entry = "p_merge_sort"
    /\ temp' = malloc(TRUE, call.num, call.size)
    /\ Start("p_merge_sort", 0, call.num - 1, call.num, SubGrain)
    /\ UNCHANGED log

\* p_bitonic_sort as it is reached with grain 1 on its leftmost short range
call_p_bitonic_sort ==
    /\ outcome = "start"
    /\ call.entry = "p_bitonic_sort"
    /\ Start("p_bitonic_sort", 0, call.num - 1, call.num, bitonic_grain(MIN_BITONIC_LENGTH))
    /\ UNCHANGED <<temp, log>>

\* the sort function has returned to the entry point: free(temp), return
Return ==
    /\ outcome = "running"
    /\ <<>> \in DOMAIN tasks
    /\ tasks[<<>>].pc = "done"
    /\ temp' = IF call.entry \in {"sort", "merge"} THEN [st |-> "freed", mem |-> <<>>] ELSE temp
    /\ tasks' = [u \in DOMAIN tasks \ {<<>>} |-> tasks[u]]
    /\ outcome' = "returned"
    /\ UNCHANGED <<call, grain, input, base, round, snap, log>>

\* the caller applies the same entry point to the short buffer it got back
Reapply ==
    /\ outcome = "returned"
    /\ round = 1
    /\ call.entry \in Entries
    /\ call.num <= MaxCount
    /\ call.workers = 1
    /\ tasks = NoTasks
    /\ round' = 2
    /\ snap' = [i \in InRange |-> base[i]]
    /\ input' = [i \in InRange |-> base[i]]
    /\ outcome' = "start"
    /\ temp' = NoTemp
    /\ grain' = 0
    /\ log' = NoLog
    /\ UNCHANGED <<call, base, tasks>>

----------------------------------------------------------------------------
(* The steps of the frames *)

\* the two halves p_merge_sort spawns
p_merge_sort_halves(l, r, m) ==
    <<Task("p_merge_sort", l, m, m - l + 1, TRUE),
      Task("p_merge_sort", m + 1, r, r - m, TRUE)>>

\* p_merge_sort, nelem > grain: spawn both halves, then cilk_sync
p_merge_sort_spawn(t) ==
    /\ At(t, "p_merge_sort", "ready")
    /\ p_merge_sort_forks(tasks[t].l, tasks[t].r, tasks[t].n, grain)
    /\ Finish(t, Now,
              Spawn(t, [tasks[t] EXCEPT !.pc = "sync",
                                        !.m = p_merge_sort_mid(tasks[t].l, tasks[t].r)],
                    p_merge_sort_halves(tasks[t].l, tasks[t].r,
                                        p_merge_sort_mid(tasks[t].l, tasks[t].r))),
              TRUE)

\* p_merge_sort past its cilk_sync: p_merge, return
p_merge_sort_join(t) ==
    /\ At(t, "p_merge_sort", "sync")
    /\ Finish(t, p_merge(Now, call.cmp, call.size, tasks[t].l, tasks[t].r, tasks[t].m),
              Done(t), FALSE)

\* p_merge_sort, nelem <= grain: the range is sorted without spawning
p_merge_sort_base(t) ==
    /\ At(t, "p_merge_sort", "ready")
    /\ ~p_merge_sort_forks(tasks[t].l, tasks[t].r, tasks[t].n, grain)
    /\ \E keyok \in BOOLEAN :
           Finish(t, p_merge_sort_seq(Now, call.cmp, call.size, tasks[t].n,
                                      tasks[t].l, tasks[t].r, grain, keyok),
                  Done(t), FALSE)

\* the frames p_quick_sort spawns for the ranges rs
p_quick_sort_children(rs) ==
    [k \in DOMAIN rs |->
        Task("p_quick_sort", rs[k].l, rs[k].r, rs[k].r - rs[k].l + 1, TRUE)]

\* cilk_spawn on each range of rs, then cilk_sync
p_quick_sort_fork(t, s, rs) ==
    Finish(t, s,
           Spawn(t, [tasks[t] EXCEPT !.pc = IF rs = <<>> THEN "done" ELSE "sync"],
                 p_quick_sort_children(rs)),
           rs # <<>>)

\* the partition has left sp
p_quick_sort_parted(t, sp) ==
    p_quick_sort_fork(t, sp.s, p_quick_sort_ranges(tasks[t].l, tasks[t].r, sp.i, sp.j))

\* p_quick_sort on a range it forks for: partition, spawn the sub-ranges
p_quick_sort_spawn(t) ==
    /\ At(t, "p_quick_sort", "ready")
    /\ p_quick_sort_forks(tasks[t].l, tasks[t].r, grain)
    /\ p_quick_sort_parted(t, p_quick_sort_split(Now, call.cmp, call.size,
                                                 tasks[t].l, tasks[t].r))

\* p_quick_sort on a range it does not fork for
p_quick_sort_rec(t) ==
    /\ At(t, "p_quick_sort", "ready")
    /\ ~p_quick_sort_forks(tasks[t].l, tasks[t].r, grain)
    /\ Finish(t, p_quick_sort_seq(Now, call.cmp, call.size, tasks[t].l, tasks[t].r),
              Done(t), FALSE)

\* p_quick_sort past its cilk_sync
p_quick_sort_join(t) ==
    /\ At(t, "p_quick_sort", "sync")
    /\ Finish(t, Now, Done(t), FALSE)

\* the two halves p_bitonic_sort spawns, in the directions d
p_bitonic_sort_halves(l, r, n, m, d) ==
    <<Task("p_bitonic_sort", l, l + m - 1, m, d[1]),
      Task("p_bitonic_sort", l + m, r, n - m, d[2])>>

\* p_bitonic_sort, num > grain: spawn both halves, then cilk_sync
p_bitonic_sort_spawn(t) ==
    /\ At(t, "p_bitonic_sort", "ready")
    /\ tasks[t].n > grain
    /\ Finish(t, Now,
              Spawn(t, [tasks[t] EXCEPT !.pc = "sync", !.m = tasks[t].n \div 2],
                    p_bitonic_sort_halves(tasks[t].l, tasks[t].r, tasks[t].n,
                                          tasks[t].n \div 2,
                                          p_bitonic_sort_dirs(tasks[t].asec))),
              TRUE)

\* the leaf of p_bitonic_sort and p_bitonic_merge: nothing for one element
bitonic_leaf_step(t) ==
    \E tie \in {"stable", "reverse"} :
        Finish(t, IF tasks[t].n > 1
                  THEN bitonic_leaf(Now, call.cmp, call.size, tasks[t].l, tasks[t].n,
                                    tasks[t].asec, tie)
                  ELSE Now,
               Done(t), FALSE)

\* p_bitonic_sort, num <= grain
p_bitonic_sort_leaf(t) ==
    /\ At(t, "p_bitonic_sort", "ready")
    /\ ~(tasks[t].n > grain)
    /\ bitonic_leaf_step(t)

\* p_bitonic_sort past its cilk_sync: it calls p_bitonic_merge
p_bitonic_sort_merge(t) ==
    /\ At(t, "p_bitonic_sort", "sync")
    /\ Finish(t, Now,
              [u \in (DOMAIN tasks \ Children(t)) \cup {Append(t, 3)} |->
                  IF u = t THEN [tasks[t] EXCEPT !.pc = "call"]
                  ELSE IF u = Append(t, 3)
                  THEN Task("p_bitonic_merge", tasks[t].l, tasks[t].r, tasks[t].n,
                            tasks[t].asec)
                  ELSE tasks[u]],
              FALSE)

\* p_bitonic_sort when its p_bitonic_merge has returned
p_bitonic_sort_return(t) ==
    /\ At(t, "p_bitonic_sort", "call")
    /\ Finish(t, Now, Done(t), FALSE)

\* the workers emu_local_for spawns, one per chunk of ch
merge_worker_tasks(ch, m, asec) ==
    [k \in DOMAIN ch |->
        [Task("merge_worker", ch[k].l, ch[k].r, ch[k].r - ch[k].l, asec) EXCEPT !.m = m]]

\* emu_local_for(low, low + (num - m), grain, merge_worker, ...)
p_bitonic_merge_for(t, m) ==
    Finish(t, Now,
           Spawn(t, [tasks[t] EXCEPT !.pc = "for", !.m = m],
                 merge_worker_tasks(
                     emu_local_for_chunks(tasks[t].l, tasks[t].l + (tasks[t].n - m), grain),
                     m, tasks[t].asec)),
           TRUE)

\* p_bitonic_merge, num > grain: emu_local_for spawns the compare-swap
\* workers over [low, low + num - m) and joins them
p_bitonic_merge_pass(t) ==
    /\ At(t, "p_bitonic_merge", "ready")
    /\ tasks[t].n > grain
    /\ p_bitonic_merge_for(t, highestPowerofTwoLessThan(tasks[t].n))

\* p_bitonic_merge, num <= grain
p_bitonic_merge_leaf(t) ==
    /\ At(t, "p_bitonic_merge", "ready")
    /\ ~(tasks[t].n > grain)
    /\ bitonic_leaf_step(t)

\* one worker of emu_local_for runs merge_worker on its chunk
merge_worker_run(t) ==
    /\ At(t, "merge_worker", "ready")
    /\ Finish(t, merge_worker(Now, call.cmp, call.size, tasks[t].asec, tasks[t].m,
                              tasks[t].l, tasks[t].r),
              Done(t), FALSE)

\* a p_bitonic_merge that returned while the merges it spawned still ran
p_bitonic_merge_detaches == FALSE

\* a Cilk function syncs before it returns: p_bitonic_merge waits for the
\* two merges it spawned although it has no cilk_sync of its own
p_bitonic_merge_syncs == TRUE

\* the two merges p_bitonic_merge spawns
p_bitonic_merge_halves(l, r, n, m, asec) ==
    <<Task("p_bitonic_merge", l, l + m - 1, m, asec),
      Task("p_bitonic_merge", l + m, r, n - m, asec)>>

\* p_bitonic_merge when emu_local_for has returned: spawn the two merges
p_bitonic_merge_spawn(t) ==
    /\ At(t, "p_bitonic_merge", "for")
    /\ Finish(t, Now,
              [u \in (DOMAIN tasks \ Children(t)) \cup {Append(t, 1), Append(t, 2)} |->
                  IF u = t
                  THEN [tasks[t] EXCEPT
                           !.pc = IF p_bitonic_merge_syncs THEN "sync" ELSE "done"]
                  ELSE IF u \in DOMAIN tasks \ Children(t) THEN tasks[u]
                  ELSE p_bitonic_merge_halves(tasks[t].l, tasks[t].r, tasks[t].n,
                                              tasks[t].m, tasks[t].asec)[u[Len(u)]]],
              TRUE)

\* p_bitonic_merge returns when the merges it spawned have
p_bitonic_merge_join(t) ==
    /\ At(t, "p_bitonic_merge", "sync")
    /\ Finish(t, Now, Done(t), FALSE)

----------------------------------------------------------------------------
(* The specification *)

Next ==
    \/ emu_sort_local
    \/ emu_sort_local_bitonic
    \/ emu_sort_local_merge
    \/ emu_sort_local_quick
    \/ call_p_merge_sort
    \/ call_p_bitonic_sort
    \/ Return
    \/ Reapply
    \/ \E t \in DOMAIN tasks : p_merge_sort_spawn(t)
    \/ \E t \in DOMAIN tasks : p_merge_sort_join(t)
    \/ \E t \in DOMAIN tasks : p_merge_sort_base(t)
    \/ \E t \in DOMAIN tasks : p_quick_sort_spawn(t)
    \/ \E t \in DOMAIN tasks : p_quick_sort_rec(t)
    \/ \E t \in DOMAIN tasks : p_quick_sort_join(t)
    \/ \E t \in DOMAIN tasks : p_bitonic_sort_spawn(t)
    \/ \E t \in DOMAIN tasks : p_bitonic_sort_leaf(t)
    \/ \E t \in DOMAIN tasks : p_bitonic_sort_merge(t)
    \/ \E t \in DOMAIN tasks : p_bitonic_sort_return(t)
    \/ \E t \in DOMAIN tasks : p_bitonic_merge_pass(t)
    \/ \E t \in DOMAIN tasks : p_bitonic_merge_leaf(t)
    \/ \E t \in DOMAIN tasks : merge_worker_run(t)
    \/ \E t \in DOMAIN tasks : p_bitonic_merge_spawn(t)
    \/ \E t \in DOMAIN tasks : p_bitonic_merge_join(t)

Spec == Init /\ [][Next]_vars

----------------------------------------------------------------------------
(* striped_array::parallel_apply (src/emu_cxx_utils/striped_array.h).       *)
(* The same variables carry a call of it: call is the call (the array's n  *)
(* as num, NODELETS(), the grain argument, what the build makes of a       *)
(* signed overflow), grain the grain once the default is applied, tasks    *)
(* the frames of parallel_apply and of the two levels of workers it        *)
(* spawns, and log the indices the worker function was invoked with.       *)
(* A long is modelled with the range -(MaxLong + 1) .. MaxLong.  Signed    *)
(* overflow is undefined: the build wraps the result, or traps.            *)

\* if (grain == 0) { grain = 256; }
DefaultGrain == 256

\* the largest long of the model
MaxLong == 1023
\* NODELETS() is 1 .. MaxNodelets
MaxNodelets == 3
\* the array has 0 .. MaxSize elements
MaxSize == 4

InLong(x) == 0 - (MaxLong + 1) <= x /\ x <= MaxLong

\* the two's complement long that x wraps to
Wrap(x) == ((x + MaxLong + 1) % (2 * (MaxLong + 1))) - (MaxLong + 1)

\* the result r of an operation on longs, under the build ov
Long(r, ov) ==
    IF InLong(r) THEN [v |-> r, trap |-> FALSE]
    ELSE [v |-> Wrap(r), trap |-> ov = "traps"]

\* a grain whose product with three nodelets is not a long
BigGrain == (2 * (MaxLong + 1)) \div 3 + 1

ApplyCalls ==
    [entry : {"parallel_apply"}, num : 0 .. MaxSize, nodelets : 1 .. MaxNodelets,
     grain : {0, 1, 2, BigGrain}, overflow : {"wraps", "traps"}, workers : {2}]

\* no index has been handed to the worker function
NoHits(n) == [hits |-> [i \in 0 .. (n - 1) |-> 0], stray |-> {}]

ApplyInit ==
    /\ call \in ApplyCalls
    /\ grain = 0
    /\ input = <<>>
    /\ base = <<>>
    /\ temp = NoTemp
    /\ tasks = NoTasks
    /\ outcome = "start"
    /\ round = 1
    /\ snap = <<>>
    /\ log = NoHits(call.num)

\* a frame of parallel_apply (i is nodelet_id), of level 1 (i is the loop's
\* i, node what NODE_ID() returns) or of level 2 (the range [i, end))
Thread(fn, i, end, node) ==
    [fn |-> fn, pc |-> "ready", i |-> i, end |-> end, node |-> node, spawned |-> 0]

\* the thread spawned with the hint &ptr[nodelet_id] runs on the nodelet
\* that holds that element
NODE_ID(nodelet_id) == nodelet_id

\* the frames after frame t, now rec, has spawned kid
SpawnOne(t, rec, kid) ==
    [u \in DOMAIN tasks \cup {Append(t, rec.spawned)} |->
        IF u = t THEN rec ELSE IF u \in DOMAIN tasks THEN tasks[u] ELSE kid]

\* the operation on longs is undefined and the build traps
Trap ==
    /\ outcome' = "trap"
    /\ UNCHANGED <<call, grain, input, base, temp, tasks, round, snap, log>>

\* the frames change to nt, nothing else does
Threads(nt) ==
    /\ tasks' = nt
    /\ UNCHANGED <<call, grain, input, base, temp, outcome, round, snap, log>>

\* parallel_apply is called: the default grain
parallel_apply ==
    /\ outcome = "start"
    /\ call.entry = "parallel_apply"
    /\ grain' = (IF call.grain = 0 THEN DefaultGrain ELSE call.grain)
    /\ tasks' = (<<>> :> Thread("parallel_apply", 0, 0, 0))
    /\ outcome' = "running"
    /\ UNCHANGED <<call, input, base, temp, round, snap, log>>

\* one iteration of parallel_apply's loop: spawn level 1 at a nodelet
parallel_apply_spawn(t) ==
    /\ At(t, "parallel_apply", "ready")
    /\ IF tasks[t].i < call.nodelets /\ tasks[t].i < call.num
       THEN Threads(SpawnOne(t, [tasks[t] EXCEPT !.i = @ + 1, !.spawned = @ + 1],
                             Thread("parallel_apply_worker_level1",
                                    NODE_ID(tasks[t].i), call.num, NODE_ID(tasks[t].i))))
       ELSE Threads([tasks EXCEPT ![t].pc = "sync"])

\* level 1 with stride and i + stride computed: spawn level 2 on
\* [first, last), or leave the loop
level1_iteration(t, stride, sum) ==
    IF stride.trap THEN Trap
    ELSE IF ~(tasks[t].i < call.num) THEN Threads([tasks EXCEPT ![t].pc = "sync"])
    ELSE IF sum.trap THEN Trap
    ELSE Threads(SpawnOne(t, [tasks[t] EXCEPT !.i = sum.v, !.spawned = @ + 1],
                          Thread("parallel_apply_worker_level2", tasks[t].i,
                                 IF sum.v > call.num THEN call.num ELSE sum.v,
                                 tasks[t].node)))

\* stride = grain * NODELETS(), and first + stride
level1_stride(t, stride) ==
    level1_iteration(t, stride, Long(tasks[t].i + stride.v, call.overflow))

\* one iteration of the loop of parallel_apply_worker_level1
parallel_apply_worker_level1(t) ==
    /\ At(t, "parallel_apply_worker_level1", "ready")
    /\ level1_stride(t, Long(grain * call.nodelets, call.overflow))

\* the indices begin, begin + stride, ... below end
level2_indices(begin, end, stride) ==
    IF begin < end
    THEN {begin + j * stride : j \in 0 .. ((end - begin - 1) \div stride)}
    ELSE {}

\* worker(i) for each i of idx (counted up to "more than once")
worker(idx) ==
    [hits |-> [i \in DOMAIN log.hits |->
                  IF i \in idx /\ log.hits[i] < 2 THEN log.hits[i] + 1 ELSE log.hits[i]],
     stray |-> log.stray \cup (idx \ DOMAIN log.hits)]

\* parallel_apply_worker_level2 runs its loop and returns
parallel_apply_worker_level2(t) ==
    /\ At(t, "parallel_apply_worker_level2", "ready")
    /\ log' = worker(level2_indices(tasks[t].i, tasks[t].end, call.nodelets))
    /\ tasks' = [tasks EXCEPT ![t].pc = "done"]
    /\ UNCHANGED <<call, grain, input, base, temp, outcome, round, snap>>

\* a function returns when the threads it spawned have
parallel_apply_join(t) ==
    /\ tasks[t].fn \in {"parallel_apply", "parallel_apply_worker_level1"}
    /\ tasks[t].pc = "sync"
    /\ MayRun(t)
    /\ Threads(Done(t))

\* parallel_apply has returned to its caller
parallel_apply_return ==
    /\ outcome = "running"
    /\ call.entry = "parallel_apply"
    /\ <<>> \in DOMAIN tasks
    /\ tasks[<<>>].pc = "done"
    /\ tasks' = NoTasks
    /\ outcome' = "returned"
    /\ UNCHANGED <<call, grain, input, base, temp, round, snap, log>>

ApplyNext ==
    \/ parallel_apply
    \/ parallel_apply_return
    \/ \E t \in DOMAIN tasks : parallel_apply_spawn(t)
    \/ \E t \in DOMAIN tasks : parallel_apply_worker_level1(t)
    \/ \E t \in DOMAIN tasks : parallel_apply_worker_level2(t)
    \/ \E t \in DOMAIN tasks : parallel_apply_join(t)

SpecApply == ApplyInit /\ [][ApplyNext]_vars

----------------------------------------------------------------------------
(* p_merge on its own: the call p_merge_sort makes of it after its         *)
(* cilk_sync, on every range [l, r] and every m with l <= m < r whose two   *)
(* halves are sorted under the caller's comparator.  call.l and call.m are *)
(* the l and the m, r is the buffer's last index.                          *)

\* keys ks are non-decreasing under comparator c on [from, to]
KeysSorted(ks, c, size, from, to) ==
    \A i \in from .. (to - 1) :
        Compar(c, Record(ks[i], i, size), Record(ks[i + 1], i + 1, size)) <= 0

\* the keys of the two halves [1,3,5] and [2,3,6]
ExampleKeys == [i \in 0 .. 5 |-> IF i < 3 THEN 2 * i + 1 ELSE IF i = 5 THEN 6 ELSE i - 1]

MergeCalls ==
    {c \in UNION {
        [entry : {"p_merge"}, num : {n}, size : {cf.size : cf \in Configs},
         cmp : {"asc", "desc"}, workers : {1},
         keys : [0 .. (n - 1) -> 0 .. MaxKey] \cup {ExampleKeys},
         l : 0 .. 1, m : 0 .. (n - 2)] : n \in 2 .. (MaxCount + 1)} :
        /\ DOMAIN c.keys = 0 .. (c.num - 1)
        /\ [size |-> c.size, cmp |-> c.cmp] \in Configs
        /\ c.l <= c.m
        /\ KeysSorted(c.keys, c.cmp, c.size, c.l, c.m)
        /\ KeysSorted(c.keys, c.cmp, c.size, c.m + 1, c.num - 1)}
    \cup
    {[entry |-> "p_merge", num |-> 6, size |-> sz, cmp |-> "asc", workers |-> 1,
      keys |-> ExampleKeys, l |-> 0, m |-> 2] : sz \in {LongBytes, 2 * LongBytes}}

\* p_merge_sort on [l, r] has spawned its halves and passed its cilk_sync
call_p_merge ==
    /\ outcome = "start"
    /\ call.entry = "p_merge"
    /\ \E ok \in BOOLEAN : temp' = malloc(ok, call.num, call.size)
    /\ tasks' = (<<>> :> [Task("p_merge_sort", call.l, call.num - 1,
                               call.num - call.l, TRUE)
                              EXCEPT !.pc = "sync", !.m = call.m])
    /\ grain' = merge_grain(call.num)
    /\ outcome' = "running"
    /\ UNCHANGED <<call, input, base, round, snap, log>>

MergeNext ==
    \/ call_p_merge
    \/ \E t \in DOMAIN tasks : p_merge_sort_join(t)
    \/ Return

SpecMerge == InitOn(MergeCalls) /\ [][MergeNext]_vars

----------------------------------------------------------------------------
(* The quick sort on its own, on every short buffer and on two longer     *)
(* ones, its frames run in serial order.                                   *)

\* the longer ones are buffers on which the partition swaps two elements 4
\* places apart, the upper one less than 4 places from the end
QuickCalls ==
    UNION {
        {[entry |-> "quick", num |-> n, size |-> cf.size, cmp |-> cf.cmp, workers |-> 1,
          keys |-> ks] :
            cf \in Configs, ks \in [0 .. (n - 1) -> 0 .. MaxKey]} : n \in 1 .. (MaxCount + 1)}
    \cup
    {[entry |-> "quick", num |-> Len(q), size |-> cf.size, cmp |-> cf.cmp, workers |-> 1,
      keys |-> [i \in 0 .. (Len(q) - 1) |-> q[i + 1]]] : cf \in Configs, q \in {<<1, 0, 1, 0, 1>>, <<0, 0, 0, 1, 0, 0, 0, 1>>}}

QuickNext ==
    \/ emu_sort_local_quick
    \/ Return
    \/ \E t \in DOMAIN tasks : p_quick_sort_spawn(t)
    \/ \E t \in DOMAIN tasks : p_quick_sort_rec(t)
    \/ \E t \in DOMAIN tasks : p_quick_sort_join(t)

SpecQuick == InitOn(QuickCalls) /\ [][QuickNext]_vars

----------------------------------------------------------------------------
(* p_bitonic_sort on its own, in either direction: the call                *)
(* p_bitonic_sort(base, 0, num, compar, asec, size, grain) on every short  *)
(* buffer and on the buffer [5,3,1,4,2].  call.asec and call.grain are the *)
(* asec and the grain of the call.                                         *)

\* the grains of the calls: 1, as the entry point computes it for 32..63
\* elements, and 2, as for 64..95
BitonicGrains == 1 .. 2

DescKeys == <<5, 3, 1, 4, 2>>

BitonicCalls ==
    UNION {
        {[entry |-> "p_bitonic_sort", num |-> n, size |-> cf.size, cmp |-> cf.cmp,
          workers |-> 1, keys |-> ks, asec |-> d, grain |-> g] :
            cf \in Configs, ks \in [0 .. (n - 1) -> 0 .. MaxKey],
            d \in BOOLEAN, g \in BitonicGrains} : n \in 1 .. MaxCount}
    \cup
    {[entry |-> "p_bitonic_sort", num |-> Len(DescKeys), size |-> cf.size, cmp |-> cf.cmp,
      workers |-> 1, keys |-> [i \in 0 .. (Len(DescKeys) - 1) |-> DescKeys[i + 1]],
      asec |-> FALSE, grain |-> g] :
        cf \in Configs, g \in BitonicGrains \cup {Len(DescKeys)}}

\* p_bitonic_sort(base, 0, num, compar, asec, size, grain)
call_p_bitonic_sort_asec ==
    /\ outcome = "start"
    /\ call.entry = "p_bitonic_sort"
    /\ tasks' = (<<>> :> Task("p_bitonic_sort", 0, call.num - 1, call.num, call.asec))
    /\ grain' = call.grain
    /\ outcome' = "running"
    /\ UNCHANGED <<call, input, base, temp, round, snap, log>>

BitonicNext ==
    \/ call_p_bitonic_sort_asec
    \/ Return
    \/ \E t \in DOMAIN tasks : p_bitonic_sort_spawn(t)
    \/ \E t \in DOMAIN tasks : p_bitonic_sort_leaf(t)
    \/ \E t \in DOMAIN tasks : p_bitonic_sort_merge(t)
    \/ \E t \in DOMAIN tasks : p_bitonic_sort_return(t)
    \/ \E t \in DOMAIN tasks : p_bitonic_merge_pass(t)
    \/ \E t \in DOMAIN tasks : p_bitonic_merge_leaf(t)
    \/ \E t \in DOMAIN tasks : merge_worker_run(t)
    \/ \E t \in DOMAIN tasks : p_bitonic_merge_spawn(t)
    \/ \E t \in DOMAIN tasks : p_bitonic_merge_join(t)

SpecBitonic == InitOn(BitonicCalls) /\ [][BitonicNext]_vars

----------------------------------------------------------------------------
(* highestPowerofTwoLessThan on its own, on every n >= 2 of a size_t.  The *)
(* frame's n is the argument and, once it has returned, its m the result,  *)
(* as p_bitonic_merge keeps it.                                            *)

PowerCalls ==
    {[entry |-> "highestPowerofTwoLessThan", num |-> n, size |-> LongBytes,
      cmp |-> "asc", workers |-> 1, keys |-> <<>>] : n \in 2 .. (Pow2(SizeBits) - 1)}

PowerInit ==
    /\ call \in PowerCalls
    /\ grain = 0
    /\ input = <<>>
    /\ base = <<>>
    /\ temp = NoTemp
    /\ tasks = NoTasks
    /\ outcome = "start"
    /\ round = 1
    /\ snap = <<>>
    /\ log = NoLog

\* size_t m = highestPowerofTwoLessThan(num): the call
call_highestPowerofTwoLessThan ==
    /\ outcome = "start"
    /\ call.entry = "highestPowerofTwoLessThan"
    /\ tasks' = (<<>> :> Task("highestPowerofTwoLessThan", 0, call.num - 1, call.num, TRUE))
    /\ outcome' = "running"
    /\ UNCHANGED <<call, grain, input, base, temp, round, snap, log>>

\* the loop and the return
highestPowerofTwoLessThan_return(t) ==
    /\ outcome = "running"
    /\ tasks[t].fn = "highestPowerofTwoLessThan" /\ tasks[t].pc = "ready"
    /\ tasks' = [tasks EXCEPT ![t] = [@ EXCEPT !.m = highestPowerofTwoLessThan(tasks[t].n),
                                               !.pc = "done"]]
    /\ UNCHANGED <<call, grain, input, base, temp, outcome, round, snap, log>>

PowerNext ==
    \/ call_highestPowerofTwoLessThan
    \/ \E t \in DOMAIN tasks : highestPowerofTwoLessThan_return(t)

SpecPower == PowerInit /\ [][PowerNext]_vars

----------------------------------------------------------------------------
(* global_stream_add_serial_spawn (src/global_stream.c), as main runs it    *)
(* in mode serial_spawn.  The same variables carry the run: call is main's *)
(* arguments with the arrays a and b, base the array c, grain the grain    *)
(* the function computes, tasks its frame (l is the loop's i) and the      *)
(* workers it has spawned (on [l, r), wr the indices they have written).   *)

\* the arguments main accepts, up to these
MaxLog2 == 2
MaxThreads == 5

\* the workers the model lets one call spawn
MaxSpawn == 5

StreamCalls ==
    {[entry |-> "serial_spawn", log2_num_elements |-> k, num_threads |-> nt,
      num |-> Pow2(k), a |-> [i \in 0 .. (Pow2(k) - 1) |-> i + v],
      b |-> [i \in 0 .. (Pow2(k) - 1) |-> 2 * i], workers |-> 2] :
        k \in 1 .. MaxLog2, nt \in 1 .. MaxThreads, v \in 0 .. 1}

StreamInit ==
    /\ call \in StreamCalls
    /\ grain = 0
    /\ input = <<>>
    /\ base = [i \in InRange |-> 0 - 1]
    /\ temp = NoTemp
    /\ tasks = NoTasks
    /\ outcome = "start"
    /\ round = 1
    /\ snap = <<>>
    /\ log = NoLog

\* long grain = data->n / data->num_threads; i = 0
global_stream_add_serial_spawn ==
    /\ outcome = "start"
    /\ call.entry = "serial_spawn"
    /\ grain' = call.num \div call.num_threads
    /\ tasks' = (<<>> :> [Task("global_stream_add_serial_spawn", 0, call.num, call.num, TRUE)
                              EXCEPT !.pc = "for"])
    /\ outcome' = "running"
    /\ UNCHANGED <<call, input, base, temp, round, snap, log>>

\* one iteration of the loop: i < n, spawn the worker on [i, end), i += grain
serial_spawn_for ==
    /\ outcome = "running"
    /\ call.entry = "serial_spawn"
    /\ tasks[<<>>].pc = "for"
    /\ tasks[<<>>].l < call.num
    /\ Cardinality(DOMAIN tasks) <= MaxSpawn
    /\ tasks' = (<<Cardinality(DOMAIN tasks)>> :>
                     Task("recursive_spawn_add_worker", tasks[<<>>].l,
                          IF tasks[<<>>].l + grain <= call.num
                          THEN tasks[<<>>].l + grain ELSE call.num,
                          call.num, TRUE))
                @@ [tasks EXCEPT ![<<>>].l = @ + grain]
    /\ UNCHANGED <<call, grain, input, base, temp, outcome, round, snap, log>>

\* a worker runs: c[i] = a[i] + b[i] for i in [begin, end)
recursive_spawn_add_worker(t) ==
    /\ outcome = "running"
    /\ tasks[t].fn = "recursive_spawn_add_worker" /\ tasks[t].pc = "ready"
    /\ base' = [i \in InRange |->
                  IF tasks[t].l <= i /\ i < tasks[t].r THEN call.a[i] + call.b[i]
                  ELSE base[i]]
    /\ tasks' = [tasks EXCEPT ![t].pc = "done",
                              ![t].wr = {i \in InRange : tasks[t].l <= i /\ i < tasks[t].r}]
    /\ UNCHANGED <<call, grain, input, temp, outcome, round, snap, log>>

\* the loop has ended: cilk_sync, return
serial_spawn_sync ==
    /\ outcome = "running"
    /\ call.entry = "serial_spawn"
    /\ tasks[<<>>].pc = "for"
    /\ ~(tasks[<<>>].l < call.num)
    /\ \A u \in DOMAIN tasks \ {<<>>} : tasks[u].pc = "done"
    /\ tasks' = [tasks EXCEPT ![<<>>].pc = "done"]
    /\ outcome' = "returned"
    /\ UNCHANGED <<call, grain, input, base, temp, round, snap, log>>

StreamNext ==
    \/ global_stream_add_serial_spawn
    \/ serial_spawn_for
    \/ \E t \in DOMAIN tasks : recursive_spawn_add_worker(t)
    \/ serial_spawn_sync

SpecStream == StreamInit /\ [][StreamNext]_vars

----------------------------------------------------------------------------
(* What the calls are to achieve *)

\* the caller's buffer
Out == [i \in InRange |-> base[i]]

\* non-decreasing under the caller's comparator
Sorted ==
    \A i \in InRange : (i + 1) \in InRange => Compar(call.cmp, base[i], base[i + 1]) <= 0

\* the same records as the input (the records of an input are all different)
Permutation == {base[i] : i \in InRange} = {input[i] : i \in InRange}

InputUnsorted ==
    \E i \in InRange : (i + 1) \in InRange /\ Compar(call.cmp, input[i], input[i + 1]) > 0

InputHasTies ==
    \E i, j \in InRange : i < j /\ Compar(call.cmp, input[i], input[j]) = 0

\* where the input had the record e
InputIndex(e) == CHOOSE k \in InRange : input[k] = e

\* records that compare equal are in the order the input had them in
Stable ==
    \A i, j \in InRange :
        (i < j /\ Compar(call.cmp, base[i], base[j]) = 0)
            => InputIndex(base[i]) < InputIndex(base[j])

\* the elements a frame was given
Range(f) == IF f.fn = "merge_worker" THEN f.l .. (f.r - 1) ELSE f.l .. f.r

\* frames that run in parallel were given disjoint ranges
RangesDisjoint ==
    \A u, t \in DOMAIN tasks :
        (Parallel(u, t) /\ tasks[u].pc # "done" /\ tasks[t].pc # "done")
            => Range(tasks[u]) \cap Range(tasks[t]) = {}

\* C1: when emu_sort_local returns, the buffer is a permutation of the
\* input and non-decreasing under the comparator, for every count, on the
\* qsort path (count < 32) and on the merge-sort path (count >= 32).
C1_SortSorts ==
    (call.entry = "sort" /\ outcome = "returned") => (Sorted /\ Permutation)

\* C1 happens: emu_sort_local has returned from the merge-sort path, having
\* forked, on an input that was not sorted
C1_Witness ==
    /\ call.entry = "sort" /\ outcome = "returned"
    /\ call.num >= MIN_BITONIC_LENGTH /\ log.forked /\ InputUnsorted

\* C2: when emu_sort_local_merge returns, the buffer is a non-decreasing
\* permutation of the input; so it is when p_merge_sort returns from a
\* range it sorts by sequential recursion (more than 32 elements, not more
\* than the grain).
C2_MergeSorts ==
    (call.entry \in {"merge", "p_merge_sort"} /\ outcome = "returned")
        => (Sorted /\ Permutation)

\* C2 happens: emu_sort_local_merge has returned from a count of 2..7,
\* where the grain is 0 and it forks down to single elements
C2_Witness ==
    /\ call.entry = "merge" /\ outcome = "returned"
    /\ call.num > 1 /\ merge_grain(call.num) = 0 /\ log.forked /\ InputUnsorted

\* C3: the merge sort is stable: when emu_sort_local_merge (or p_merge_sort
\* on a range it sorts sequentially) returns, records that compare equal
\* are in the order they had in the input, whatever order the forked frames
\* ran in.
C3_MergeStable ==
    (call.entry \in {"merge", "p_merge_sort"} /\ outcome = "returned" /\ Permutation)
        => Stable

\* C3 happens: emu_sort_local_merge has returned, its frames having run in
\* any order, on an unsorted input with records that compare equal
C3_Witness ==
    /\ call.entry = "merge" /\ outcome = "returned" /\ call.workers > 1
    /\ log.forked /\ InputUnsorted /\ InputHasTies /\ Permutation

\* C4: when emu_sort_local_quick returns from a count >= 1, the buffer is
\* a non-decreasing permutation of the input.
C4_QuickSorts ==
    (call.entry = "quick" /\ call.num >= 1 /\ outcome = "returned")
        => (Sorted /\ Permutation)

\* C5: when emu_sort_local_bitonic returns, and when p_bitonic_sort with
\* asec = true and a grain >= 1 returns from num >= 1 elements, the buffer
\* is a non-decreasing permutation of the input (stated here for 8-byte
\* elements, which swap exchanges whole).
C5_BitonicSorts ==
    (call.entry \in {"bitonic", "p_bitonic_sort"} /\ call.size = LongBytes
     /\ outcome = "returned")
        => (Sorted /\ Permutation)

\* C6: a call of an entry point with count 0 or 1 leaves the buffer as it
\* was, accesses no element outside [0, count), forks nothing and
\* allocates nothing (stated here for 8-byte elements).
C6_ShortCallIsNoOp ==
    (call.entry \in Entries /\ call.size = LongBytes /\ call.num <= 1)
        => (Out = input /\ log.oob = {} /\ ~log.forked /\ log.allocs = 0)

\* C7: an entry point applied to the buffer it returned leaves every
\* record where it was (stated here for emu_sort_local_quick on 8-byte
\* elements).
C7_QuickIdempotent ==
    (call.entry = "quick" /\ call.size = LongBytes /\ round = 2 /\ outcome = "returned")
        => Out = snap

\* C8: when malloc returns null for the scratch buffer, no sort function
\* is run with it and nothing is read or written through it.
C8_NullScratchUnused ==
    temp.st = "null" => (tasks = NoTasks /\ ~log.nulluse)

\* C9: frames that run in parallel have disjoint ranges, and no element of
\* the buffer or of the scratch buffer is accessed by two of them, one of
\* them writing.
C9_RaceFree == RangesDisjoint /\ ~log.race

\* C10: when an entry point has returned, every frame of the call has
\* returned, none has accessed the buffer since, the scratch buffer is
\* freed, and it was not accessed after the free; the scratch buffer is
\* not freed while a frame is left.
C10_CompleteAtReturn ==
    /\ outcome = "returned"
           => (/\ tasks = NoTasks
               /\ ~log.late
               /\ log.allocs > 0 => temp.st = "freed")
    /\ temp.st = "freed" => tasks = NoTasks
    /\ ~log.freeuse

\* C10 happens: emu_sort_local_bitonic has returned from a count it forks
\* for, every p_bitonic_merge of it having spawned its two merges
C10_Witness ==
    /\ call.entry = "bitonic" /\ outcome = "returned"
    /\ call.num >= MIN_BITONIC_LENGTH /\ log.forked

\* the frames that frame t spawned have all returned
ChildrenReturned(t) ==
    \A u \in DOMAIN tasks :
        (Len(u) = Len(t) + 1 /\ SubSeq(u, 1, Len(t)) = t) => tasks[u].pc = "done"

\* frame t stands before the step that combines what it spawned: p_merge in
\* p_merge_sort, the call of p_bitonic_merge in p_bitonic_sort, the two
\* cilk_spawn of the sub-merges in p_bitonic_merge
BeforeCombine(t) ==
    \/ tasks[t].fn \in {"p_merge_sort", "p_bitonic_sort"} /\ tasks[t].pc = "sync"
    \/ tasks[t].fn = "p_bitonic_merge" /\ tasks[t].pc = "for"

\* frame t takes that step
Combines(t) ==
    BeforeCombine(t) /\ (t \notin DOMAIN tasks' \/ tasks'[t].pc # tasks[t].pc)

\* C11: join before combine: p_merge_sort starts p_merge on [l, r] only
\* when both halves it spawned have returned, p_bitonic_sort calls
\* p_bitonic_merge only when both half sorts have returned, and
\* p_bitonic_merge spawns its two sub-merges only when every merge_worker of
\* the pass over the pairs (i, i+m) has returned.
C11_JoinBeforeCombine ==
    [][\A t \in DOMAIN tasks : Combines(t) => ChildrenReturned(t)]_vars

\* C11 happens: with frames running in any order, the p_merge_sort that
\* emu_sort_local_merge called has spawned, joined and merged
C11_Witness ==
    /\ call.entry = "merge" /\ call.workers > 1 /\ log.forked
    /\ <<>> \in DOMAIN tasks
    /\ tasks[<<>>].pc = "done" /\ tasks[<<>>].wr # {}

\* C12: termination: an entry point called with a count >= 1 runs until
\* it returns: the call never ends in another way (a failed assert, a
\* memory fault).
C12_EntryReturns ==
    (call.entry \in Entries /\ call.num >= 1)
        => outcome \in {"start", "running", "returned"}

\* C13: the dispatcher's policy: emu_sort_local with count < 32 sorts with
\* the sequential sort, forking nothing and allocating nothing; with
\* count >= 32 it allocates the scratch buffer once and runs p_merge_sort
\* on [0, count-1] with grain count >> 6 when count > 128 and count >> 3
\* otherwise (4 for count 32), forking; and what it returns is sorted.
C13_DispatcherPolicy ==
    call.entry = "sort" =>
        /\ call.num < 32
               => (/\ tasks = NoTasks /\ ~log.forked /\ log.allocs = 0
                   /\ temp.st = "none")
        /\ (call.num >= 32 /\ outcome # "start")
               => (/\ log.allocs = 1
                   /\ grain = IF call.num > 128 THEN call.num \div 64
                              ELSE call.num \div 8
                   /\ <<>> \in DOMAIN tasks
                          => (/\ tasks[<<>>].fn = "p_merge_sort"
                              /\ tasks[<<>>].l = 0
                              /\ tasks[<<>>].r = call.num - 1
                              /\ tasks[<<>>].n = call.num)
                   /\ outcome = "returned" => log.forked)
        /\ outcome = "returned" => (Sorted /\ Permutation)

\* C13 happens: emu_sort_local has returned from 32 elements, having run
\* the merge sort with grain 4
C13_Witness ==
    /\ call.entry = "sort" /\ call.num = 32 /\ outcome = "returned"
    /\ grain = 4 /\ log.forked /\ log.allocs = 1 /\ InputUnsorted /\ Sorted

\* the indices a level-2 frame hands to the worker function
Level2Indices(f) == level2_indices(f.i, f.end, call.nodelets)

\* C14: parallel_apply invokes the worker function exactly once for every
\* index of [0, n) and for no other index, for every n >= 0, NODELETS() >= 1
\* and grain >= 0: no index is ever invoked twice, none outside [0, n), the
\* call ends by returning, every index has then been invoked, and the index
\* sets of different level-2 frames are disjoint.
C14_AppliesOnce ==
    call.entry = "parallel_apply" =>
        /\ \A i \in DOMAIN log.hits : log.hits[i] <= 1
        /\ log.stray = {}
        /\ outcome # "trap"
        /\ outcome = "returned" => \A i \in DOMAIN log.hits : log.hits[i] = 1
        /\ \A u, t \in DOMAIN tasks :
               (/\ u # t
                /\ tasks[u].fn = "parallel_apply_worker_level2"
                /\ tasks[t].fn = "parallel_apply_worker_level2")
                   => Level2Indices(tasks[u]) \cap Level2Indices(tasks[t]) = {}

\* C15: range confinement: a frame, with the frames that have returned to
\* it, reads and writes only elements of the range it was given: base[l..r]
\* and temp[l..r] for p_merge_sort, base[left..right] for p_quick_sort,
\* [low, low+num) for p_bitonic_sort and p_bitonic_merge, [begin, end) for
\* merge_worker; and a call on count >= 1 elements accesses no element
\* outside the buffer.
C15_RangeConfined ==
    call.entry # "parallel_apply" =>
        /\ \A t \in DOMAIN tasks :
               /\ tasks[t].acc \subseteq Range(tasks[t])
               /\ tasks[t].tacc \subseteq Range(tasks[t])
        /\ call.num >= 1 => log.oob = {}

\* frame t, of p_merge_sort, runs from its start to its cilk_sync or return
MergeSortStarts(t) ==
    /\ tasks[t].fn = "p_merge_sort" /\ tasks[t].pc = "ready"
    /\ t \in DOMAIN tasks' /\ tasks'[t].pc # "ready"

\* the frame spawned its two halves in that step
MergeSortForked(t) ==
    /\ tasks'[t].pc = "sync"
    /\ Append(t, 1) \in DOMAIN tasks' /\ Append(t, 2) \in DOMAIN tasks'

\* the calls the frame made in that step without spawning, for nelem
\* elements from l with midpoint m
MergeSortCutover(t, l, nelem, m) ==
    /\ tasks'[t].pc = "done"
    /\ \A k \in {1, 2} : Append(t, k) \notin DOMAIN tasks'
    /\ log'.calls \ log.calls =
           IF nelem > 1 /\ nelem <= 32
           THEN {[fn |-> "insertion_sort", l |-> l, n |-> nelem]}
           ELSE {c \in log'.calls \ log.calls : nelem > 32}
    /\ nelem > 32
           => {[fn |-> "p_merge_sort", l |-> l, n |-> m - l + 1],
               [fn |-> "p_merge_sort", l |-> m + 1, n |-> l + nelem - 1 - m]}
                  \subseteq log'.calls
    /\ nelem <= 1 => base' = base

MergeRange == call.l .. (call.num - 1)

\* the record e was in the left half when p_merge was called
FromLeft(e) == \E k \in call.l .. call.m : input[k] = e

\* p_merge has returned to p_merge_sort
Merged == <<>> \in DOMAIN tasks /\ tasks[<<>>].pc = "done"

\* C17: the postcondition of p_merge: called on [l, r] with l <= m < r and
\* both halves non-decreasing, it returns with base[l..r] a non-decreasing
\* permutation of the two halves in which, among records that compare
\* equal, those of the left half come before those of the right half, and
\* it has written the r-l+1 positions of the range and no other.
C17_MergePostcondition ==
    (call.entry = "p_merge" /\ Merged) =>
        /\ \A i \in MergeRange :
               (i + 1) \in MergeRange => Compar(call.cmp, base[i], base[i + 1]) <= 0
        /\ {base[i] : i \in MergeRange} = {input[i] : i \in MergeRange}
        /\ \A i, j \in MergeRange :
               (/\ Compar(call.cmp, base[i], base[j]) = 0
                /\ FromLeft(base[i]) /\ ~FromLeft(base[j])) => i < j
        /\ tasks[<<>>].wr = MergeRange
        /\ Cardinality(tasks[<<>>].wr) = call.num - call.l

\* C17 happens: [1,3,5] and [2,3,6] are merged to [1,2,3,3,5,6], the 3 of
\* the left half (from index 1) before the 3 of the right half (from 4)
C17_Witness ==
    /\ call.entry = "p_merge" /\ Merged
    /\ call.keys = ExampleKeys /\ call.l = 0 /\ call.m = 2
    /\ [i \in InRange |-> Key(base[i])] = [i \in 0 .. 5 |-> IF i < 2 THEN i + 1 ELSE IF i < 4 THEN 3 ELSE i + 1]
    /\ Id(base[2]) = 1 /\ Id(base[3]) = 4

\* the p_quick_sort frames about to run on a range with left <= right
QuickFrames ==
    {t \in DOMAIN tasks :
        /\ tasks[t].fn = "p_quick_sort" /\ tasks[t].pc = "ready"
        /\ tasks[t].l <= tasks[t].r}

\* what frame t's selection step, and its partition loop after it, leave
Selected(t) == p_quick_sort_pivot(Now, call.cmp, call.size, tasks[t].l, tasks[t].r)

Parted(t) == p_quick_sort_split(Now, call.cmp, call.size, tasks[t].l, tasks[t].r)

Mid(t) == tasks[t].l + (tasks[t].r - tasks[t].l) \div 2

\* the selection step has left pv: lo <= mid <= hi, by the three records
\* it found there, and pivot is a copy of the record at mid
MedianOfThree(pv, lo, mid, hi) ==
    /\ pv.fault = "none"
    /\ Compar(call.cmp, pv.mem[lo], pv.mem[mid]) <= 0
    /\ Compar(call.cmp, pv.mem[mid], pv.mem[hi]) <= 0
    /\ {pv.mem[p] : p \in {lo, mid, hi}} = {base[p] : p \in {lo, mid, hi}}
    /\ \A p \in InRange \ {lo, mid, hi} : pv.mem[p] = base[p]
    /\ pv.loc = pv.mem[mid]

\* C18: the median of three of p_quick_sort: on a range with left <= right
\* the selection step leaves base[left] <= base[mid] <= base[right] with
\* the three records it found at these positions, and pivot a copy of
\* base[mid] that the partition loop does not change.
C18_MedianOfThree ==
    \A t \in QuickFrames :
        /\ MedianOfThree(Selected(t), tasks[t].l, Mid(t), tasks[t].r)
        /\ Parted(t).s.loc = Selected(t).loc

\* the partition loop has left sp on [left, right]: j < i, nothing above
\* the pivot up to j, nothing below it from i, the pivot's equals between
PartitionPost(sp, left, right) ==
    /\ sp.j < sp.i
    /\ \A k \in left .. sp.j : Compar(call.cmp, sp.s.mem[k], sp.s.loc) <= 0
    /\ \A k \in sp.i .. right : Compar(call.cmp, sp.s.mem[k], sp.s.loc) >= 0
    /\ \A k \in (sp.j + 1) .. (sp.i - 1) : Compar(call.cmp, sp.s.mem[k], sp.s.loc) = 0
    /\ \A a \in left .. sp.j : \A b \in (sp.j + 1) .. right :
           Compar(call.cmp, sp.s.mem[a], sp.s.mem[b]) <= 0
    /\ \A a \in left .. (sp.i - 1) : \A b \in sp.i .. right :
           Compar(call.cmp, sp.s.mem[a], sp.s.mem[b]) <= 0

\* C19: the postcondition of p_quick_sort's partition: when the loop over
\* [left, right] exits, j < i, every element of base[left..j] compares <=
\* pivot, every element of base[i..right] compares >= pivot, and every
\* element strictly between j and i compares equal to it, so that nothing
\* of [left, j] is above anything to its right and nothing of [i, right] is
\* below anything to its left.
C19_PartitionPost ==
    \A t \in QuickFrames :
        Parted(t).s.fault = "none" => PartitionPost(Parted(t), tasks[t].l, tasks[t].r)

\* the partition loop has left sp on [left, right]: the cursors stopped on
\* elements of the range, and the two sub-ranges are shorter than the range
CursorBounds(sp, left, right) ==
    /\ sp.s.fault = "none"
    /\ \A c \in sp.s.calls : c.fn = "i" => (left <= c.l /\ c.l <= right)
    /\ \A c \in sp.s.calls : c.fn = "j" => (left <= c.l /\ c.l <= right)
    /\ left - 1 <= sp.j /\ sp.j < right
    /\ left < sp.i /\ sp.i <= right + 1
    /\ \A k \in DOMAIN p_quick_sort_ranges(left, right, sp.i, sp.j) :
           /\ p_quick_sort_ranges(left, right, sp.i, sp.j)[k].l
                  < p_quick_sort_ranges(left, right, sp.i, sp.j)[k].r
           /\ left <= p_quick_sort_ranges(left, right, sp.i, sp.j)[k].l
           /\ p_quick_sort_ranges(left, right, sp.i, sp.j)[k].r <= right
           /\ p_quick_sort_ranges(left, right, sp.i, sp.j)[k].r
                  - p_quick_sort_ranges(left, right, sp.i, sp.j)[k].l < right - left

\* C20: the cursors of p_quick_sort's partition: on a range with left <=
\* right, i never stops past right and j never below left, at loop exit
\* left-1 <= j < right and left < i <= right+1, each of [left, j] and
\* [i, right] that is recursed into is shorter than [left, right], and none
\* of one element or less is recursed into.
C20_CursorBounds ==
    /\ \A t \in QuickFrames :
           Selected(t).fault = "none" => CursorBounds(Parted(t), tasks[t].l, tasks[t].r)
    /\ \A t \in DOMAIN tasks :
           (tasks[t].fn = "p_quick_sort" /\ t # <<>>) => tasks[t].l < tasks[t].r

\* non-increasing under the caller's comparator
SortedDescending ==
    \A i \in InRange : (i + 1) \in InRange => Compar(call.cmp, base[i], base[i + 1]) >= 0

\* C21: the descending mode of the bitonic sort: p_bitonic_sort with asec
\* false, for every num >= 1 and grain >= 1, leaves its range a
\* non-increasing permutation of its input.
C21_BitonicDescending ==
    (call.entry = "p_bitonic_sort" /\ ~call.asec /\ outcome = "returned")
        => (SortedDescending /\ Permutation)

\* mem is sorted on [a, b] in direction asec under the caller's comparator
SortedIn(mem, a, b, asec) ==
    \A i \in a .. (b - 1) :
        IF asec THEN Compar(call.cmp, mem[i], mem[i + 1]) <= 0
        ELSE Compar(call.cmp, mem[i], mem[i + 1]) >= 0

\* mem is bitonic on the n elements from a: some rotation of them rises to
\* a peak and falls from it
Bitonic(mem, a, n) ==
    \E k \in 0 .. (n - 1) : \E p \in 0 .. (n - 1) :
        \A i \in 0 .. (n - 2) :
            IF i < p
            THEN Compar(call.cmp, mem[a + ((i + k) % n)], mem[a + ((i + 1 + k) % n)]) <= 0
            ELSE Compar(call.cmp, mem[a + ((i + k) % n)], mem[a + ((i + 1 + k) % n)]) >= 0

\* every element of mem[a..b] is on the asec side of every element of
\* mem[b+1..c]
Ordered(mem, a, b, c, asec) ==
    \A x \in a .. b : \A y \in (b + 1) .. c :
        IF asec THEN Compar(call.cmp, mem[x], mem[y]) <= 0
        ELSE Compar(call.cmp, mem[x], mem[y]) >= 0

\* the p_bitonic_merge frames that p_bitonic_sort has called on a range
\* above the grain whose two parts it has sorted, the first num/2 elements
\* in direction asec and the others in the opposite direction
MergeFrames ==
    {t \in DOMAIN tasks :
        /\ tasks[t].fn = "p_bitonic_merge" /\ tasks[t].pc = "ready"
        /\ t # <<>> /\ tasks[SubSeq(t, 1, Len(t) - 1)].fn = "p_bitonic_sort"
        /\ tasks[t].n > grain
        /\ SortedIn(base, tasks[t].l, tasks[t].l + tasks[t].n \div 2 - 1, tasks[t].asec)
        /\ SortedIn(base, tasks[t].l + tasks[t].n \div 2, tasks[t].r, ~tasks[t].asec)}

\* the buffer after the compare-swap pass of frame t
Passed(t) ==
    merge_worker(Now, call.cmp, call.size, tasks[t].asec,
                 highestPowerofTwoLessThan(tasks[t].n),
                 tasks[t].l, tasks[t].l + tasks[t].n - highestPowerofTwoLessThan(tasks[t].n)).mem

RECURSIVE PowerOfTwo(_)
PowerOfTwo(p) == p = 1 \/ (p > 1 /\ p % 2 = 0 /\ PowerOfTwo(p \div 2))

\* the highest power of two strictly less than n
PowerBelow(n) == CHOOSE p \in 1 .. n : PowerOfTwo(p) /\ p < n /\ 2 * p >= n

\* what the pass is to leave on the n elements from low, with m the first m
PassPost(mem, low, n, m, asec) ==
    /\ Bitonic(mem, low, m)
    /\ Bitonic(mem, low + m, n - m)
    /\ Ordered(mem, low, low + m - 1, low + n - 1, asec)

\* C22: the compare-swap pass of p_bitonic_merge: called by p_bitonic_sort
\* on [low, low+num), num > grain, the first num/2 elements sorted in
\* direction asec and the others in the opposite direction, the pass with
\* m the highest power of two below num leaves [low, low+m) and
\* [low+m, low+num) each bitonic and mutually ordered in direction asec,
\* for every num.
C22_MergePass ==
    \A t \in MergeFrames :
        PassPost(Passed(t), tasks[t].l, tasks[t].n, PowerBelow(tasks[t].n), tasks[t].asec)

\* m is the highest power of two below n, and the pairs (i, i+m) for
\* i in [0, n-m) lie inside [0, n) and share no index
HighestPowerBelow(n, m) ==
    /\ m = PowerBelow(n)
    /\ n \div 2 <= m /\ m < n
    /\ PowerOfTwo(n) => 2 * m = n
    /\ n - m <= m
    /\ \A i \in 0 .. (n - m - 1) : i + m <= n - 1
    /\ \A i, j \in 0 .. (n - m - 1) : i # j => {i, i + m} \cap {j, j + m} = {}

\* C23: highestPowerofTwoLessThan(n) returns, for every n >= 2 of a
\* size_t, the largest power of two p < n (n/2 <= p < n, p = n/2 when n is
\* a power of two), so that in p_bitonic_merge num - m <= m, every pair
\* (i, i+m) lies inside the range and no index belongs to two pairs.
C23_HighestPowerOfTwo ==
    \A t \in DOMAIN tasks :
        (tasks[t].fn = "highestPowerofTwoLessThan" /\ tasks[t].pc = "done")
            => HighestPowerBelow(tasks[t].n, tasks[t].m)

\* the buffer and its neighbourhood with the elements a and b exchanged
Exchanged(a, b) == [base EXCEPT ![a] = base[b], ![b] = base[a]]

\* C24: the swap primitive: for every element size, swap(a, b, size) on two
\* distinct elements of the buffer exchanges the size bytes of a with the
\* size bytes of b and leaves every other byte as it was.
C24_SwapExchanges ==
    call.entry = "quick" =>
        \A a, b \in InRange :
            a # b => /\ swap(Now, a, b, call.size).fault = "none"
                     /\ swap(Now, a, b, call.size).mem = Exchanged(a, b)

\* C25: the assertion of my_memcpy (the byte count is a multiple of 8)
\* holds in every execution of the merge sort, the insertion sort and the
\* quick sort, for every count >= 0 and every element size > 0.
C25_AssertHolds ==
    call.entry \in {"sort", "merge", "quick", "p_merge_sort", "p_merge"}
        => outcome # "abort"

\* the workers global_stream_add_serial_spawn has spawned
StreamWorkers == {u \in DOMAIN tasks : tasks[u].fn = "recursive_spawn_add_worker"}

\* C26: global_stream_add_serial_spawn, for every n = 2^k and every
\* num_threads > 0 that main accepts (num_threads > n included), ends
\* after spawning one worker per chunk [i, min(i+grain, n)) with grain =
\* n / num_threads: the loop advances (grain >= 1), every worker has a
\* chunk of 1..grain elements, no more than n workers are spawned, every
\* index is in exactly one chunk, and after the sync c[i] = a[i] + b[i]
\* for every i.
C26_SerialSpawn ==
    call.entry = "serial_spawn" =>
        /\ outcome # "start" => grain >= 1
        /\ Cardinality(StreamWorkers) <= call.num
        /\ \A u \in StreamWorkers :
               /\ tasks[u].l < tasks[u].r /\ tasks[u].r - tasks[u].l <= grain
               /\ tasks[u].r <= call.num
        /\ \A u, v \in StreamWorkers :
               u # v => (tasks[u].r <= tasks[v].l \/ tasks[v].r <= tasks[u].l)
        /\ outcome = "returned" =>
               \A i \in InRange :
                   /\ base[i] = call.a[i] + call.b[i]
                   /\ Cardinality({u \in StreamWorkers :
                                      tasks[u].l <= i /\ i < tasks[u].r}) = 1

====
